---- MODULE Spec2Model ----
(***************************************************************************)
(* Role based permissions of the event platform (src/rb_permissions) and   *)
(* the mutation resolvers they guard.                                      *)
(*                                                                         *)
(* A rule is a tuple: <<"allow">>, <<"deny">>, <<"rule", name>> for a      *)
(* predicate of permissions/rules, <<"isCaller", ref>>,                    *)
(* <<"argHasRole", role>>, <<"not", r>>, <<"and", rs>>, <<"or", rs>>.      *)
(* A rule map is a record  type -> (record field -> rule).                 *)
(***************************************************************************)
EXTENDS Naturals, FiniteSets, Sequences, TLC

\* ------------------------------------------------------------------ rules
allow == <<"allow">>
deny == <<"deny">>
not(r) == <<"not", r>>
and(rs) == <<"and", rs>>
or(rs) == <<"or", rs>>
isCaller(ref) == <<"isCaller", ref>>
argHasRole(role) == <<"argHasRole", role>>

parentIsPrivate == <<"rule", "parentIsPrivate">>
parentIsLocked == <<"rule", "parentIsLocked">>
callerIsInvitedToParent == <<"rule", "callerIsInvitedToParent">>
callerManagesParent == <<"rule", "callerManagesParent">>
callerAttendsParent == <<"rule", "callerAttendsParent">>
callerModeratesParent == <<"rule", "callerModeratesParent">>
callerOwnsParent == <<"rule", "callerOwnsParent">>
argIsPrivate == <<"rule", "argIsPrivate">>
argIsFlagged == <<"rule", "argIsFlagged">>
argIsLocked == <<"rule", "argIsLocked">>
callerManagesArg == <<"rule", "callerManagesArg">>
callerOwnsArg == <<"rule", "callerOwnsArg">>
callerAttendsArg == <<"rule", "callerAttendsArg">>
callerModeratesArg == <<"rule", "callerModeratesArg">>
callerIsInvitedToArg == <<"rule", "callerIsInvitedToArg">>
callerRequestsArg == <<"rule", "callerRequestsArg">>

invitedOrManager == or(<<callerIsInvitedToParent, callerManagesParent>>)

publicOrInvitedOrAttending ==
    or(<<not(parentIsPrivate), callerIsInvitedToParent, callerAttendsParent>>)

attendantUnlessLocked ==
    and(<<callerAttendsParent, or(<<not(parentIsLocked), callerManagesParent>>)>>)

\* ------------------------------------------------------------- rule maps
DEFAULTS ==
    [ User |-> [ _id |-> allow ],
      Category |-> [ _id |-> allow, name |-> allow, events |-> allow ],
      Event |-> [ _id |-> not(parentIsPrivate),
                  title |-> not(parentIsPrivate),
                  time |-> not(parentIsPrivate),
                  description |-> not(parentIsPrivate),
                  location |-> not(parentIsPrivate),
                  owner |-> not(parentIsPrivate),
                  private |-> not(parentIsPrivate),
                  attendants |-> not(parentIsPrivate),
                  managers |-> not(parentIsPrivate) ],
      Query |-> [ events |-> allow ],
      Mutation |-> [ createUser |-> allow, login |-> allow ] ]

FREE ==
    [ User |-> [ _id |-> allow,
                 name |-> allow,
                 surname |-> allow,
                 username |-> allow,
                 role |-> allow,
                 moderates |-> allow,
                 attends |-> isCaller("PARENT"),
                 requests |-> isCaller("PARENT"),
                 authored |-> isCaller("PARENT"),
                 subscribes |-> isCaller("PARENT"),
                 invitations |-> isCaller("PARENT"),
                 invites |-> isCaller("PARENT") ],
      Category |-> [ _id |-> allow,
                     name |-> allow,
                     events |-> allow,
                     moderators |-> allow ],
      Invitation |-> [ _id |-> invitedOrManager,
                       from |-> invitedOrManager,
                       invited |-> invitedOrManager,
                       to |-> invitedOrManager ],
      Event |-> [ _id |-> publicOrInvitedOrAttending,
                  title |-> publicOrInvitedOrAttending,
                  time |-> publicOrInvitedOrAttending,
                  description |-> publicOrInvitedOrAttending,
                  location |-> publicOrInvitedOrAttending,
                  owner |-> publicOrInvitedOrAttending,
                  private |-> publicOrInvitedOrAttending,
                  attendants |-> publicOrInvitedOrAttending,
                  managers |-> publicOrInvitedOrAttending,
                  requests |-> callerManagesParent,
                  invited |-> callerManagesParent,
                  messageBoard |-> callerAttendsParent ],
      Post |-> [ _id |-> attendantUnlessLocked,
                 content |-> attendantUnlessLocked,
                 author |-> attendantUnlessLocked,
                 postedAt |-> attendantUnlessLocked,
                 flagged |-> callerManagesParent,
                 locked |-> callerManagesParent ],
      Query |-> [ users |-> allow, usersByUsername |-> allow, events |-> allow ],
      Mutation |-> [ createUser |-> allow,
                     login |-> allow,
                     editUser |-> isCaller("ARG"),
                     unsubscribe |-> allow,
                     createEvent |-> not(argIsPrivate),
                     editEvent |-> and(<<callerManagesArg, not(argIsPrivate)>>),
                     addCategories |-> callerManagesArg,
                     removeCategories |-> callerManagesArg,
                     deleteEvent |-> callerOwnsParent,
                     kick |-> and(<<not(and(<<callerOwnsArg, isCaller("ARG")>>)),
                                    or(<<isCaller("ARG"), callerManagesArg>>)>>),
                     promote |-> callerOwnsArg,
                     demote |-> and(<<callerOwnsArg, not(isCaller("ARG"))>>),
                     invite |-> callerManagesArg,
                     acceptInvitation |-> callerIsInvitedToArg,
                     declineInvitation |-> or(<<callerIsInvitedToArg, callerManagesArg>>),
                     request |-> not(argIsPrivate),
                     acceptRequest |-> callerManagesArg,
                     declineRequest |-> or(<<callerRequestsArg, callerManagesArg>>),
                     createPost |-> callerAttendsArg,
                     flagPost |-> callerAttendsArg,
                     review |-> and(<<argIsFlagged, callerManagesArg>>) ] ]

\* PREMIUM without its own createEvent
PREMIUM_NoCreateEvent ==
    [ Mutation |-> [ subscribe |-> allow, editEvent |-> allow ] ]

PREMIUM ==
    [ Mutation |-> [ subscribe |-> allow,
                     createEvent |-> allow,
                     editEvent |-> allow ] ]

MODERATOR ==
    [ Category |-> [ subscribers |-> callerModeratesParent ],
      Event |-> [ messageBoard |-> callerModeratesParent ],
      Post |-> [ _id |-> callerModeratesParent,
                 content |-> callerModeratesParent,
                 author |-> callerModeratesParent,
                 postedAt |-> callerModeratesParent,
                 flagged |-> callerModeratesParent,
                 locked |-> callerModeratesParent ],
      Mutation |-> [ removeCategories |-> callerModeratesArg,
                     flagPost |-> callerModeratesArg,
                     review |-> and(<<argIsFlagged, callerModeratesArg>>) ] ]

\* ADMINISTRATOR with review open to any post
ADMINISTRATOR_ReviewAllow ==
    [ Category |-> [ subscribers |-> allow ],
      Event |-> [ messageBoard |-> allow ],
      Post |-> [ _id |-> allow,
                 content |-> allow,
                 author |-> allow,
                 postedAt |-> allow,
                 flagged |-> allow,
                 locked |-> allow ],
      Mutation |-> [ createCategory |-> allow,
                     editCategory |-> allow,
                     deleteCategory |-> allow,
                     assignModerator |-> argHasRole("MODERATOR"),
                     removeModerator |-> allow,
                     setRole |-> allow,
                     deleteUser |-> allow,
                     removeCategories |-> allow,
                     deletePost |-> argIsLocked,
                     flagPost |-> allow,
                     review |-> allow,
                     unlockPost |-> allow ] ]

ADMINISTRATOR ==
    [ Category |-> [ subscribers |-> allow ],
      Event |-> [ messageBoard |-> allow ],
      Post |-> [ _id |-> allow,
                 content |-> allow,
                 author |-> allow,
                 postedAt |-> allow,
                 flagged |-> allow,
                 locked |-> allow ],
      Mutation |-> [ createCategory |-> allow,
                     editCategory |-> allow,
                     deleteCategory |-> allow,
                     assignModerator |-> argHasRole("MODERATOR"),
                     removeModerator |-> allow,
                     setRole |-> allow,
                     deleteUser |-> allow,
                     removeCategories |-> allow,
                     deletePost |-> argIsLocked,
                     flagPost |-> allow,
                     review |-> argIsFlagged,
                     unlockPost |-> allow ] ]

\* ----------------------------------------------------------- composition
Declares(m, t, f) == t \in DOMAIN m /\ f \in DOMAIN m[t]

\* compose(base, extension): field-level override, the extension wins.
compose(base, ext) ==
    [ t \in DOMAIN base \cup DOMAIN ext |->
        [ f \in (IF t \in DOMAIN base THEN DOMAIN base[t] ELSE {})
                \cup (IF t \in DOMAIN ext THEN DOMAIN ext[t] ELSE {}) |->
            IF Declares(ext, t, f) THEN ext[t][f] ELSE base[t][f] ] ]

RECURSIVE OR(_)
OR(maps) ==
    IF Len(maps) = 1 THEN maps[1]
    ELSE compose(OR(SubSeq(maps, 1, Len(maps) - 1)), maps[Len(maps)])

\* ------------------------------------------------------------ the model
\* Bounds of the model.
MaxEvents == 1
MaxPosts == 1
MaxInvitations == 1
MaxCalls == 2

Users == {"alice", "bob"}
Anonymous == "anonymous"
Roles == {"FREE", "PREMIUM", "MODERATOR", "ADMINISTRATOR"}
NoRole == "ANONYMOUS"
Categories == {"sports"}
EventIds == 1..MaxEvents
PostIds == 1..MaxPosts
CallIds == 1..MaxCalls

VARIABLES
    events,       \* Event collection: id -> document
    posts,        \* Post collection: id -> document
    invitations,  \* Invitation collection: id -> document
    invited,      \* number of Invitation documents created so far
    moderators,   \* Category collection: category -> its moderators
    last,         \* the request being answered, with the gate's verdict
    calls         \* acceptInvitation / declineInvitation calls in flight

vars == <<events, posts, invitations, invited, moderators, last, calls>>
store == <<events, posts, invitations, invited, moderators>>

\* ------------------------------------------------------------- evaluator
\* shield options
fallbackRule_Allow == allow
fallbackRule == deny
debug == TRUE

\* PREMIUM built without FREE
Components_PremiumAlone(role) ==
    CASE role = "FREE" -> <<FREE>>
      [] role = "PREMIUM" -> <<PREMIUM>>
      [] role = "MODERATOR" -> <<FREE, PREMIUM, MODERATOR>>
      [] role = "ADMINISTRATOR" -> <<FREE, PREMIUM, MODERATOR, ADMINISTRATOR>>

\* rbac: the component maps of each role
Components(role) ==
    CASE role = "FREE" -> <<FREE>>
      [] role = "PREMIUM" -> <<FREE, PREMIUM>>
      [] role = "MODERATOR" -> <<FREE, PREMIUM, MODERATOR>>
      [] role = "ADMINISTRATOR" -> <<FREE, PREMIUM, MODERATOR, ADMINISTRATOR>>

\* FREE handed over as the default map
permissions_FreeDefaults ==
    [ table |-> [ role \in Roles |-> OR(Components(role)) ],
      defaults |-> FREE ]

\* rbac({ role: map, ... }, DEFAULTS): the table handed to shield
permissions ==
    [ table |-> [ role \in Roles |-> OR(Components(role)) ],
      defaults |-> DEFAULTS ]

\* The rule that guards (type, field) for a principal of the given role: the
\* role's map, then the default map, then the fallback rule; a principal
\* without a role has the default map only.
rbac(role, t, f) ==
    IF role \in DOMAIN permissions.table /\ Declares(permissions.table[role], t, f)
    THEN permissions.table[role][t][f]
    ELSE IF Declares(permissions.defaults, t, f) THEN permissions.defaults[t][f]
    ELSE fallbackRule

\* The event an entity reference <<kind, id>> belongs to, 0 when there is none.
EventOf(ref) ==
    CASE ref[1] = "Event" -> IF ref[2] \in DOMAIN events THEN ref[2] ELSE 0
      [] ref[1] = "Post" ->
            IF ref[2] \in DOMAIN posts THEN posts[ref[2]].postedAt ELSE 0
      [] ref[1] = "Invitation" ->
            IF ref[2] \in DOMAIN invitations THEN invitations[ref[2]].to ELSE 0
      [] OTHER -> 0

\* The entity the arguments of a mutation refer to.
ArgRef(q) ==
    IF q.event # 0 THEN <<"Event", q.event>>
    ELSE IF q.post # 0 THEN <<"Post", q.post>>
    ELSE IF q.invitation # 0 THEN <<"Invitation", q.invitation>>
    ELSE <<"none", 0>>

Ref(q, ref) == IF ref = "PARENT" THEN q.parent ELSE ArgRef(q)

B(b) == IF b THEN "Allow" ELSE "Deny"

Owns(q, ref) ==
    LET e == EventOf(Ref(q, ref)) IN e # 0 /\ events[e].owner = q.caller
Manages(q, ref) ==
    LET e == EventOf(Ref(q, ref)) IN e # 0 /\ q.caller \in events[e].managers
Attends(q, ref) ==
    LET e == EventOf(Ref(q, ref)) IN e # 0 /\ q.caller \in events[e].attendants
Requests(q, ref) ==
    LET e == EventOf(Ref(q, ref)) IN e # 0 /\ q.caller \in events[e].requests
Moderates(q, ref) ==
    LET r == Ref(q, ref)
        e == EventOf(r)
    IN  IF r[1] = "Category"
        THEN r[2] \in DOMAIN moderators /\ q.caller \in moderators[r[2]]
        ELSE e # 0 /\ \E c \in events[e].categories : q.caller \in moderators[c]
IsInvitedTo(q, ref) ==
    LET r == Ref(q, ref) IN
    IF r[1] = "Invitation"
    THEN r[2] \in DOMAIN invitations /\ invitations[r[2]].invited = q.caller
    ELSE \E i \in DOMAIN invitations :
            invitations[i].to = EventOf(r) /\ invitations[i].invited = q.caller
IsPrivate(q, ref) ==
    LET e == EventOf(Ref(q, ref)) IN
    IF ref = "ARG" /\ q.event = 0 THEN q.private
    ELSE e # 0 /\ events[e].private
PostIs(q, ref, flag) ==
    LET r == Ref(q, ref) IN
    r[1] = "Post" /\ r[2] \in DOMAIN posts /\ posts[r[2]][flag]

\* permissions/rules: a predicate that reads the store throws when the
\* lookup is unavailable.
Rule(name, q) ==
    IF q.unavailable THEN "Error"
    ELSE CASE name = "parentIsPrivate" -> B(IsPrivate(q, "PARENT"))
           [] name = "parentIsLocked" -> B(PostIs(q, "PARENT", "locked"))
           [] name = "callerIsInvitedToParent" -> B(IsInvitedTo(q, "PARENT"))
           [] name = "callerManagesParent" -> B(Manages(q, "PARENT"))
           [] name = "callerAttendsParent" -> B(Attends(q, "PARENT"))
           [] name = "callerModeratesParent" -> B(Moderates(q, "PARENT"))
           [] name = "callerOwnsParent" -> B(Owns(q, "PARENT"))
           [] name = "argIsPrivate" -> B(IsPrivate(q, "ARG"))
           [] name = "argIsFlagged" -> B(PostIs(q, "ARG", "flagged"))
           [] name = "argIsLocked" -> B(PostIs(q, "ARG", "locked"))
           [] name = "callerManagesArg" -> B(Manages(q, "ARG"))
           [] name = "callerOwnsArg" -> B(Owns(q, "ARG"))
           [] name = "callerAttendsArg" -> B(Attends(q, "ARG"))
           [] name = "callerModeratesArg" -> B(Moderates(q, "ARG"))
           [] name = "callerIsInvitedToArg" -> B(IsInvitedTo(q, "ARG"))
           [] name = "callerRequestsArg" -> B(Requests(q, "ARG"))

IsCaller(ref, q) ==
    IF ref = "PARENT"
    THEN B(q.parent[1] = "User" /\ q.parent[2] = q.caller)
    ELSE B(q.user = q.caller)

\* Allow, Deny or Error (the rule threw).
RECURSIVE Eval(_, _)
RECURSIVE EvalAnd(_, _, _)
RECURSIVE EvalOr(_, _, _, _)
Eval(r, q) ==
    CASE r[1] = "allow" -> "Allow"
      [] r[1] = "deny" -> "Deny"
      [] r[1] = "rule" -> Rule(r[2], q)
      [] r[1] = "isCaller" -> IsCaller(r[2], q)
      [] r[1] = "argHasRole" -> B(q.argRole = r[2])
      [] r[1] = "not" ->
            LET v == Eval(r[2], q)
            IN  IF v = "Allow" THEN "Deny" ELSE IF v = "Deny" THEN "Allow" ELSE v
      [] r[1] = "and" -> EvalAnd(r[2], 1, q)
      [] r[1] = "or" -> EvalOr(r[2], 1, q, "Deny")

EvalAnd(rs, i, q) ==
    IF i > Len(rs) THEN "Allow"
    ELSE LET v == Eval(rs[i], q)
         IN  IF v = "Allow" THEN EvalAnd(rs, i + 1, q) ELSE v

EvalOr(rs, i, q, sofar) ==
    IF i > Len(rs) THEN sofar
    ELSE LET v == Eval(rs[i], q)
         IN  IF v = "Allow" THEN "Allow"
             ELSE EvalOr(rs, i + 1, q, IF v = "Error" THEN "Error" ELSE sofar)

\* shield: the verdict on request q and what the caller gets back.
Gate(q) ==
    LET v == Eval(rbac(q.role, q.type, q.field), q)
    IN  [ decision |-> IF v = "Allow" THEN "Allow" ELSE "Deny",
          threw |-> v = "Error",
          response |-> IF v = "Allow" THEN "data"
                       ELSE IF v = "Error" /\ debug THEN "RuleError"
                       ELSE "NotAuthorised" ]
\* ------------------------------------------------------------- resolvers
\* Mutation resolvers, as updates of the collections.
NewEvent(es) == CHOOSE e \in EventIds \ DOMAIN es : \A x \in EventIds \ DOMAIN es : e <= x
NewPost(ps) == CHOOSE p \in PostIds \ DOMAIN ps : \A x \in PostIds \ DOMAIN ps : p <= x

createEvent(es, owner, private, categories) ==
    es @@ (NewEvent(es) :> [ owner |-> owner, managers |-> {owner},
                             attendants |-> {owner}, requests |-> {},
                             private |-> private, categories |-> categories ])

editEvent(es, event, private) ==
    IF event \in DOMAIN es THEN [es EXCEPT ![event].private = private] ELSE es

deleteEvent(es, event) == [ e \in DOMAIN es \ {event} |-> es[e] ]

\* kick that leaves the managers alone
kick_AttendantsOnly(es, user, event) ==
    IF event \in DOMAIN es
    THEN [es EXCEPT ![event].attendants = @ \ {user}]
    ELSE es

kick(es, user, event) ==
    IF event \in DOMAIN es
    THEN [es EXCEPT ![event].attendants = @ \ {user},
                    ![event].managers = @ \ {user}]
    ELSE es

promote(es, user, event) ==
    IF event \in DOMAIN es /\ user \in es[event].attendants
    THEN [es EXCEPT ![event].managers = @ \cup {user}]
    ELSE es

demote(es, user, event) ==
    IF event \in DOMAIN es
    THEN [es EXCEPT ![event].managers = @ \ {user}]
    ELSE es

invite(invs, n, from, user, event) ==
    invs @@ ((n + 1) :> [ from |-> from, invited |-> user, to |-> event ])

\* a find that does not delete
findOne(invs, invitation) == invs

\* Invitation.findOneAndDelete: the collection it leaves
findOneAndDelete(invs, invitation) ==
    [ i \in DOMAIN invs \ {invitation} |-> invs[i] ]

\* the .then callback of acceptInvitation, for the invitation found
acceptInvitationThen(es, invit) ==
    IF invit.to \in DOMAIN es
    THEN [es EXCEPT ![invit.to].attendants = @ \cup {invit.invited}]
    ELSE es

request(es, caller, event) ==
    IF event \in DOMAIN es
    THEN [es EXCEPT ![event].requests = @ \cup {caller}]
    ELSE es

acceptRequest(es, user, event) ==
    IF event \in DOMAIN es /\ user \in es[event].requests
    THEN [es EXCEPT ![event].requests = @ \ {user},
                    ![event].attendants = @ \cup {user}]
    ELSE es

declineRequest(es, user, event) ==
    IF event \in DOMAIN es /\ user \in es[event].requests
    THEN [es EXCEPT ![event].requests = @ \ {user}]
    ELSE es

createPost(ps, postedAt) ==
    ps @@ (NewPost(ps) :> [ postedAt |-> postedAt, flagged |-> FALSE, locked |-> FALSE ])

flagPost(ps, post) ==
    IF post \in DOMAIN ps THEN [ps EXCEPT ![post].flagged = TRUE] ELSE ps

review(ps, post, locked) ==
    IF post \in DOMAIN ps
    THEN [ps EXCEPT ![post].flagged = FALSE, ![post].locked = locked]
    ELSE ps

unlockPost(ps, post) ==
    IF post \in DOMAIN ps THEN [ps EXCEPT ![post].locked = FALSE] ELSE ps
\* -------------------------------------------------------------- requests
\* ctx.session.user, as login leaves it: { _id, role }, or nobody logged in.
Principals ==
    { [ caller |-> u, role |-> r ] : u \in Users, r \in Roles }
        \cup { [ caller |-> Anonymous, role |-> NoRole ] }

NoParent == <<"none", 0>>
NoArgs ==
    [ user |-> Anonymous, event |-> 0, post |-> 0, invitation |-> 0,
      private |-> FALSE, argRole |-> NoRole ]

Req(p, t, f, parent, args, down) ==
    p @@ args @@ [ type |-> t, field |-> f, parent |-> parent, unavailable |-> down ]

\* What is kept of a request once it is answered: the request as the caller
\* sent it, and the verdict.
Answer(q, g) == [ x \in DOMAIN q \ {"unavailable"} |-> q[x] ] @@ g

Idle ==
    Answer(Req([ caller |-> Anonymous, role |-> NoRole ], "none", "none",
               NoParent, NoArgs, FALSE),
           [ decision |-> "none", threw |-> FALSE, response |-> "none" ])

FieldsOf(m) == UNION { { <<t, f>> : f \in DOMAIN m[t] } : t \in DOMAIN m }
Declared ==
    FieldsOf(DEFAULTS) \cup FieldsOf(FREE) \cup FieldsOf(PREMIUM)
        \cup FieldsOf(MODERATOR) \cup FieldsOf(ADMINISTRATOR)
\* Fields of the schema that no rule map declares.
Undeclared ==
    { <<"User", "password">>, <<"Event", "categories">>, <<"Post", "history">>,
      <<"Query", "posts">>, <<"Mutation", "purge">> }

Parents(t) ==
    CASE t = "User" -> { <<"User", u>> : u \in Users }
      [] t = "Category" -> { <<"Category", c>> : c \in Categories }
      [] t = "Event" -> { <<"Event", e>> : e \in DOMAIN events }
      [] t = "Post" -> { <<"Post", x>> : x \in DOMAIN posts }
      [] t = "Invitation" -> { <<"Invitation", i>> : i \in DOMAIN invitations }
      [] OTHER -> { NoParent }

\* Mutations whose resolvers write collections the model does not hold
\* (users, subscriptions, category names).
OtherMutations ==
    { "createUser", "login", "editUser", "unsubscribe", "subscribe",
      "createCategory", "editCategory", "deleteCategory", "assignModerator",
      "removeModerator", "setRole", "deleteUser", "purge" }

\* ---------------------------------------------------------------- actions
\* A field resolution behind the shield: the rule is evaluated, the resolver
\* runs only when it allows.
ReadField ==
    /\ last = Idle
    /\ \E p \in Principals, k \in Declared \cup Undeclared, down \in BOOLEAN :
         /\ k[1] # "Mutation"
         /\ \E parent \in Parents(k[1]) :
              LET q == Req(p, k[1], k[2], parent, NoArgs, down)
              IN  last' = Answer(q, Gate(q))
    /\ UNCHANGED <<store, calls>>

Mutate ==
    /\ last = Idle
    /\ \E p \in Principals, f \in OtherMutations, u \in Users, r \in Roles,
          down \in BOOLEAN :
         /\ f # "editUser" => u = "alice"
         /\ f # "assignModerator" => r = "FREE"
         /\ LET q == Req(p, "Mutation", f, NoParent,
                         [NoArgs EXCEPT !.user = u, !.argRole = r], down)
            IN  last' = Answer(q, Gate(q))
    /\ UNCHANGED <<store, calls>>

CreateEvent ==
    /\ last = Idle
    /\ DOMAIN events # EventIds
    /\ \E p \in Principals, private \in BOOLEAN, cats \in SUBSET Categories,
          down \in BOOLEAN :
         LET q == Req(p, "Mutation", "createEvent", NoParent,
                      [NoArgs EXCEPT !.private = private], down)
             g == Gate(q)
         IN  /\ last' = Answer(q, g)
             /\ events' = IF g.decision = "Allow"
                          THEN createEvent(events, p.caller, private, cats)
                          ELSE events
    /\ UNCHANGED <<posts, invitations, invited, moderators, calls>>

Kick ==
    /\ last = Idle
    /\ \E p \in Principals, u \in Users, e \in EventIds, down \in BOOLEAN :
         LET q == Req(p, "Mutation", "kick", NoParent,
                      [NoArgs EXCEPT !.user = u, !.event = e], down)
             g == Gate(q)
         IN  /\ last' = Answer(q, g)
             /\ events' = IF g.decision = "Allow" THEN kick(events, u, e)
                          ELSE events
    /\ UNCHANGED <<posts, invitations, invited, moderators, calls>>

Promote ==
    /\ last = Idle
    /\ \E p \in Principals, u \in Users, e \in EventIds, down \in BOOLEAN :
         LET q == Req(p, "Mutation", "promote", NoParent,
                      [NoArgs EXCEPT !.user = u, !.event = e], down)
             g == Gate(q)
         IN  /\ last' = Answer(q, g)
             /\ events' = IF g.decision = "Allow" THEN promote(events, u, e)
                          ELSE events
    /\ UNCHANGED <<posts, invitations, invited, moderators, calls>>

Demote ==
    /\ last = Idle
    /\ \E p \in Principals, u \in Users, e \in EventIds, down \in BOOLEAN :
         LET q == Req(p, "Mutation", "demote", NoParent,
                      [NoArgs EXCEPT !.user = u, !.event = e], down)
             g == Gate(q)
         IN  /\ last' = Answer(q, g)
             /\ events' = IF g.decision = "Allow" THEN demote(events, u, e)
                          ELSE events
    /\ UNCHANGED <<posts, invitations, invited, moderators, calls>>

EditEvent ==
    /\ last = Idle
    /\ \E p \in Principals, e \in EventIds, private \in BOOLEAN, down \in BOOLEAN :
         LET q == Req(p, "Mutation", "editEvent", NoParent,
                      [NoArgs EXCEPT !.event = e, !.private = private], down)
             g == Gate(q)
         IN  /\ last' = Answer(q, g)
             /\ events' = IF g.decision = "Allow" THEN editEvent(events, e, private)
                          ELSE events
    /\ UNCHANGED <<posts, invitations, invited, moderators, calls>>

DeleteEvent ==
    /\ last = Idle
    /\ \E p \in Principals, e \in EventIds, down \in BOOLEAN :
         LET q == Req(p, "Mutation", "deleteEvent", NoParent,
                      [NoArgs EXCEPT !.event = e], down)
             g == Gate(q)
         IN  /\ last' = Answer(q, g)
             /\ events' = IF g.decision = "Allow" THEN deleteEvent(events, e)
                          ELSE events
    /\ UNCHANGED <<posts, invitations, invited, moderators, calls>>

Invite ==
    /\ last = Idle
    /\ invited < MaxInvitations
    /\ \E p \in Principals, u \in Users, e \in EventIds, down \in BOOLEAN :
         LET q == Req(p, "Mutation", "invite", NoParent,
                      [NoArgs EXCEPT !.user = u, !.event = e], down)
             g == Gate(q)
             ok == g.decision = "Allow"
         IN  /\ last' = Answer(q, g)
             /\ invitations' = IF ok THEN invite(invitations, invited, p.caller, u, e)
                               ELSE invitations
             /\ invited' = IF ok THEN invited + 1 ELSE invited
    /\ UNCHANGED <<events, posts, moderators, calls>>

AcceptInvitation ==
    /\ last = Idle
    /\ \E p \in Principals, i \in 1..invited, down \in BOOLEAN :
         LET q == Req(p, "Mutation", "acceptInvitation", NoParent,
                      [NoArgs EXCEPT !.invitation = i], down)
             g == Gate(q)
             ok == g.decision = "Allow"
         IN  /\ last' = Answer(q, g)
             /\ invitations' = IF ok THEN findOneAndDelete(invitations, i)
                               ELSE invitations
             /\ events' = IF ok /\ i \in DOMAIN invitations
                          THEN acceptInvitationThen(events, invitations[i])
                          ELSE events
    /\ UNCHANGED <<posts, invited, moderators, calls>>

DeclineInvitation ==
    /\ last = Idle
    /\ \E p \in Principals, i \in 1..invited, down \in BOOLEAN :
         LET q == Req(p, "Mutation", "declineInvitation", NoParent,
                      [NoArgs EXCEPT !.invitation = i], down)
             g == Gate(q)
         IN  /\ last' = Answer(q, g)
             /\ invitations' = IF g.decision = "Allow"
                               THEN findOneAndDelete(invitations, i)
                               ELSE invitations
    /\ UNCHANGED <<events, posts, invited, moderators, calls>>

CreatePost ==
    /\ last = Idle
    /\ DOMAIN posts # PostIds
    /\ \E p \in Principals, e \in EventIds, down \in BOOLEAN :
         LET q == Req(p, "Mutation", "createPost", NoParent,
                      [NoArgs EXCEPT !.event = e], down)
             g == Gate(q)
         IN  /\ last' = Answer(q, g)
             /\ posts' = IF g.decision = "Allow" THEN createPost(posts, e) ELSE posts
    /\ UNCHANGED <<events, invitations, invited, moderators, calls>>

FlagPost ==
    /\ last = Idle
    /\ \E p \in Principals, x \in PostIds, down \in BOOLEAN :
         LET q == Req(p, "Mutation", "flagPost", NoParent,
                      [NoArgs EXCEPT !.post = x], down)
             g == Gate(q)
         IN  /\ last' = Answer(q, g)
             /\ posts' = IF g.decision = "Allow" THEN flagPost(posts, x) ELSE posts
    /\ UNCHANGED <<events, invitations, invited, moderators, calls>>

UnlockPost ==
    /\ last = Idle
    /\ \E p \in Principals, x \in PostIds, down \in BOOLEAN :
         LET q == Req(p, "Mutation", "unlockPost", NoParent,
                      [NoArgs EXCEPT !.post = x], down)
             g == Gate(q)
         IN  /\ last' = Answer(q, g)
             /\ posts' = IF g.decision = "Allow" THEN unlockPost(posts, x) ELSE posts
    /\ UNCHANGED <<events, invitations, invited, moderators, calls>>

Review ==
    /\ last = Idle
    /\ \E p \in Principals, x \in PostIds, locked \in BOOLEAN, down \in BOOLEAN :
         LET q == Req(p, "Mutation", "review", NoParent,
                      [NoArgs EXCEPT !.post = x], down)
             g == Gate(q)
         IN  /\ last' = Answer(q, g)
             /\ posts' = IF g.decision = "Allow" THEN review(posts, x, locked)
                         ELSE posts
    /\ UNCHANGED <<events, invitations, invited, moderators, calls>>

\* The response is sent and the request's context is dropped.
Respond ==
    /\ last # Idle
    /\ last' = Idle
    /\ UNCHANGED <<store, calls>>

\* what findOneAndDelete hands to the callback when it finds nothing
NoInvitation == [ from |-> Anonymous, invited |-> Anonymous, to |-> 0 ]

NoCalls ==
    [ c \in CallIds |-> [ pc |-> "idle", kind |-> "none", invitation |-> 0,
                          found |-> FALSE, invit |-> NoInvitation ] ]

Init ==
    /\ events = << >>
    /\ posts = << >>
    /\ invitations = << >>
    /\ invited = 0
    /\ moderators = [ c \in Categories |-> {"bob"} ]
    /\ last = Idle
    /\ calls = NoCalls

Next ==
    \/ ReadField \/ Mutate \/ CreateEvent \/ EditEvent \/ DeleteEvent
    \/ Kick \/ Promote \/ Demote
    \/ Invite \/ AcceptInvitation \/ DeclineInvitation
    \/ CreatePost \/ FlagPost \/ Review \/ UnlockPost
    \/ Respond

Spec == Init /\ [][Next]_vars
\* The part of the API whose resolvers leave the membership of events alone.
NextGate ==
    \/ ReadField \/ Mutate \/ CreateEvent \/ EditEvent \/ DeleteEvent
    \/ CreatePost \/ FlagPost \/ Review \/ UnlockPost
    \/ Respond

SpecGate == Init /\ [][NextGate]_vars

\* ------------------------------------------------- the resolvers themselves
\* The resolvers as the schema calls them, whoever the caller is. No resolver
\* reads an event's private flag or categories, or who sent an invitation.
RCreateEvent ==
    /\ DOMAIN events # EventIds
    /\ \E owner \in Users : events' = createEvent(events, owner, FALSE, {})
    /\ UNCHANGED <<posts, invitations, invited, moderators, last, calls>>

RKick ==
    /\ \E u \in Users, e \in EventIds : events' = kick(events, u, e)
    /\ UNCHANGED <<posts, invitations, invited, moderators, last, calls>>

RPromote ==
    /\ \E u \in Users, e \in EventIds : events' = promote(events, u, e)
    /\ UNCHANGED <<posts, invitations, invited, moderators, last, calls>>

RDemote ==
    /\ \E u \in Users, e \in EventIds : events' = demote(events, u, e)
    /\ UNCHANGED <<posts, invitations, invited, moderators, last, calls>>

RRequest ==
    /\ \E u \in Users, e \in EventIds : events' = request(events, u, e)
    /\ UNCHANGED <<posts, invitations, invited, moderators, last, calls>>

RAcceptRequest ==
    /\ \E u \in Users, e \in EventIds : events' = acceptRequest(events, u, e)
    /\ UNCHANGED <<posts, invitations, invited, moderators, last, calls>>

RDeclineRequest ==
    /\ \E u \in Users, e \in EventIds : events' = declineRequest(events, u, e)
    /\ UNCHANGED <<posts, invitations, invited, moderators, last, calls>>

RInvite ==
    /\ invited < MaxInvitations
    /\ \E u \in Users, e \in EventIds :
         invitations' = invite(invitations, invited, "alice", u, e)
    /\ invited' = invited + 1
    /\ UNCHANGED <<events, posts, moderators, last, calls>>

RAcceptInvitation ==
    /\ \E i \in 1..invited :
         /\ invitations' = findOneAndDelete(invitations, i)
         /\ events' = IF i \in DOMAIN invitations
                      THEN acceptInvitationThen(events, invitations[i])
                      ELSE events
    /\ UNCHANGED <<posts, invited, moderators, last, calls>>

NextStore ==
    \/ RCreateEvent \/ RKick \/ RPromote \/ RDemote
    \/ RRequest \/ RAcceptRequest \/ RDeclineRequest
    \/ RInvite \/ RAcceptInvitation

SpecStore == Init /\ [][NextStore]_vars

\* -------------------------------------------- concurrent invitation calls
\* acceptInvitation and declineInvitation are two steps each: the
\* findOneAndDelete, then the callback on what it found.
Find(c) ==
    /\ calls[c].pc = "idle"
    /\ \E kind \in {"accept", "decline"}, i \in 1..invited :
         /\ calls' = [calls EXCEPT ![c] =
                [ pc |-> "then", kind |-> kind, invitation |-> i,
                  found |-> i \in DOMAIN invitations,
                  invit |-> IF i \in DOMAIN invitations THEN invitations[i]
                            ELSE NoInvitation ]]
         /\ invitations' = findOneAndDelete(invitations, i)
    /\ UNCHANGED <<events, posts, invited, moderators, last>>

Then(c) ==
    /\ calls[c].pc = "then"
    /\ calls' = [calls EXCEPT ![c].pc = "done"]
    /\ events' = IF calls[c].found /\ calls[c].kind = "accept"
                 THEN acceptInvitationThen(events, calls[c].invit)
                 ELSE events
    /\ UNCHANGED <<posts, invitations, invited, moderators, last>>

NextInvite ==
    \/ RCreateEvent \/ RInvite
    \/ \E c \in CallIds : Find(c)
    \/ \E c \in CallIds : Then(c)

SpecInvite == Init /\ [][NextInvite]_vars

\* ----------------------------------------------------------------- claims
Asked == last # Idle
Key == <<last.type, last.field>>
\* The request that was answered: a rule threw iff the store was unavailable.
AskedRequest == last @@ [ unavailable |-> last.threw ]

\* C1: a (type, field) that no role map and not the default map declares is
\* denied to every role and to an anonymous caller, whatever the request.
C1_FallbackDeny ==
    (Asked /\ Key \notin Declared) => last.decision = "Deny"

C1_Witness ==
    /\ Asked /\ Key \in Undeclared
    /\ last.role = "ADMINISTRATOR" /\ last.decision = "Deny"

\* The component lists as the composition hierarchy states them.
TierList(role) ==
    CASE role = "FREE" -> <<FREE>>
      [] role = "PREMIUM" -> <<FREE, PREMIUM>>
      [] role = "MODERATOR" -> <<FREE, PREMIUM, MODERATOR>>
      [] role = "ADMINISTRATOR" -> <<FREE, PREMIUM, MODERATOR, ADMINISTRATOR>>

LastDeclaring(list, t, f) ==
    LET is == { i \in 1..Len(list) : Declares(list[i], t, f) }
    IN  CHOOSE i \in is : \A j \in is : j <= i

\* Every role's effective map gives each (type, field) the rule of the last
\* component map that declares it, and nothing else.
EffectiveIsLastDeclaring ==
    \A role \in Roles, k \in Declared \cup Undeclared :
        LET list == TierList(role)
            eff == permissions.table[role]
        IN  IF \E i \in 1..Len(list) : Declares(list[i], k[1], k[2])
            THEN /\ Declares(eff, k[1], k[2])
                 /\ eff[k[1]][k[2]]
                       = list[LastDeclaring(list, k[1], k[2])][k[1]][k[2]]
            ELSE ~Declares(eff, k[1], k[2])

\* C3: the effective rule of every (type, field) of every role is the rule of
\* the last map of the role's component list that declares the field, and a
\* field no component declares is absent from the effective map; the rule
\* applied to a request is that effective rule.
C3_Override ==
    /\ (Asked /\ last.role \in Roles) =>
         LET list == TierList(last.role)
         IN  (\E i \in 1..Len(list) : Declares(list[i], last.type, last.field))
               => rbac(last.role, last.type, last.field)
                    = list[LastDeclaring(list, last.type, last.field)]
                          [last.type][last.field]
    /\ EffectiveIsLastDeclaring

\* a PREMIUM attendant posts under FREE's rule, which PREMIUM does not declare
C3_Witness ==
    /\ last.role = "PREMIUM" /\ Key = <<"Mutation", "createPost">>
    /\ last.decision = "Allow" /\ posts # << >>
    /\ ~Declares(PREMIUM, "Mutation", "createPost")

\* C4: an anonymous caller is judged by the DEFAULTS map alone: a field that
\* DEFAULTS does not declare is denied, one it declares gets DEFAULTS' rule.
C4_AnonymousDefaultsOnly ==
    (Asked /\ last.role = NoRole) =>
        IF Declares(DEFAULTS, last.type, last.field)
        THEN (last.decision = "Allow")
                <=> (Eval(DEFAULTS[last.type][last.field], AskedRequest) = "Allow")
        ELSE last.decision = "Deny"

C4_Witness ==
    /\ Asked /\ last.role = NoRole /\ last.decision = "Deny"
    /\ Key = <<"User", "name">> /\ Declares(FREE, "User", "name")

\* C6: Mutation.review is allowed, for any role, only on a post that is
\* flagged when the rule is checked; an ADMINISTRATOR is denied otherwise.
C6_ReviewNeedsFlag ==
    [][ (last'.type = "Mutation" /\ last'.field = "review"
            /\ last'.decision = "Allow")
        => (last'.post \in DOMAIN posts /\ posts[last'.post].flagged) ]_vars

C6_Witness ==
    /\ last.role = "ADMINISTRATOR" /\ Key = <<"Mutation", "review">>
    /\ last.post \in DOMAIN posts /\ ~posts[last.post].flagged
    /\ ~last.threw /\ last.decision = "Deny"

\* C7: createEvent with private = true is allowed to a PREMIUM caller and
\* denied to a FREE caller.
C7_PremiumCreatesPrivate ==
    (Key = <<"Mutation", "createEvent">> /\ last.private) =>
        /\ last.role = "PREMIUM" => last.decision = "Allow"
        /\ last.role = "FREE" => last.decision = "Deny"

C7_Witness ==
    /\ Key = <<"Mutation", "createEvent">> /\ last.private
    /\ last.role = "PREMIUM" /\ last.decision = "Allow"
    /\ \E e \in DOMAIN events : events[e].private /\ events[e].owner = last.caller

\* The lower tiers a role composes from.
LowerTiers(role) ==
    CASE role = "PREMIUM" -> {"FREE"}
      [] role = "MODERATOR" -> {"FREE", "PREMIUM"}
      [] role = "ADMINISTRATOR" -> {"FREE", "PREMIUM", "MODERATOR"}
      [] OTHER -> {}

\* C2: what a lower tier of a role's component list allows, the role allows
\* on the same request.
C2_TierSuperset ==
    (Asked /\ last.decision = "Deny") =>
        \A lower \in LowerTiers(last.role) :
            Gate([AskedRequest EXCEPT !.role = lower]).decision = "Deny"

\* C5: a rule that throws gives Deny, and the caller gets the same answer as
\* for any other denial.
C5_OpaqueDenial ==
    (Asked /\ last.threw) =>
        (last.decision = "Deny" /\ last.response = "NotAuthorised")

\* C9: the owner of an event stays among its managers and attendants.
C9_OwnerStays ==
    \A e \in DOMAIN events :
        events[e].owner \in events[e].managers \cap events[e].attendants

\* C8: every manager of an event is one of its attendants.
C8_ManagersAttend ==
    \A e \in DOMAIN events : events[e].managers \subseteq events[e].attendants

\* a promoted manager next to an owner who was kicked
C8_Witness ==
    \E e \in DOMAIN events :
        /\ events[e].owner \notin events[e].attendants
        /\ events[e].managers # {}

\* C10: of the calls on one invitation exactly one finds and deletes it, a
\* call that finds nothing changes nothing, and a call adds to the attendants
\* only when it is an acceptInvitation that found the invitation.
C10_ConsumedOnce ==
    [][ /\ \A i \in 1..invited' :
             /\ Cardinality({ c \in CallIds : calls'[c].pc # "idle"
                                /\ calls'[c].invitation = i /\ calls'[c].found }) <= 1
             /\ (\E c \in CallIds : calls'[c].pc # "idle" /\ calls'[c].invitation = i)
                  => /\ i \notin DOMAIN invitations'
                     /\ \E c \in CallIds : calls'[c].pc # "idle"
                            /\ calls'[c].invitation = i /\ calls'[c].found
        /\ \A c \in CallIds :
             /\ (calls[c].pc = "idle" /\ calls'[c].pc = "then" /\ ~calls'[c].found)
                  => UNCHANGED <<events, invitations>>
             /\ (calls[c].pc = "then" /\ calls'[c].pc = "done")
                  => /\ invitations' = invitations
                     /\ ~calls[c].found => events' = events
                     /\ \A e \in DOMAIN events, u \in Users :
                          (u \in events'[e].attendants \ events[e].attendants)
                            => /\ calls[c].kind = "accept" /\ calls[c].found
                               /\ calls[c].invit.invited = u
                               /\ calls[c].invit.to = e ]_vars

\* two calls on one invitation have finished, an accept that joined the
\* invited user and another call that found nothing
C10_Witness ==
    \E c, d \in CallIds :
        /\ c # d /\ calls[c].pc = "done" /\ calls[d].pc = "done"
        /\ calls[c].invitation = calls[d].invitation
        /\ calls[c].kind = "accept" /\ calls[c].found /\ ~calls[d].found
        /\ calls[c].invit.to \in DOMAIN events
        /\ calls[c].invit.invited \in events[calls[c].invit.to].attendants
        /\ calls[c].invit.invited # events[calls[c].invit.to].owner
====
